---- MODULE Spec2Model ----
(***************************************************************************)
(* Model of the GitHub repository lister (main.py): the paginated fetch    *)
(* loop make_github_api_request and the try block of main that calls it,   *)
(* prints the result and turns exceptions into exit codes.                 *)
(*                                                                         *)
(* The HTTP server is the environment.  It is drawn once in Init:          *)
(*   "paged"   holds a finite store and serves page p of size n as         *)
(*             store[(p-1)n+1 .. pn] (what the GitHub API does);           *)
(*   "endless" answers every request with a full page;                     *)
(*   "erratic" answers every request with a page of any of several sizes,  *)
(*             including one larger than per_page.                         *)
(* Independently of the mode every single request may be answered with an  *)
(* error status, fail at the network level, or be interrupted by the user. *)
(***************************************************************************)
EXTENDS Integers, Sequences, FiniteSets, TLC

(* ---------------------------- bounds ---------------------------------- *)

\* largest store of the exhaustively enumerated paged servers
MaxTotal == 4
\* largest small --repos-per-page value (ApiMaxPerPage is always included)
MaxPerPage == 3
\* largest --pages value
MaxPagesArg == 3
\* largest --limit value
MaxReposArg == 3
\* no request is issued for a page number above PageCap (caps the runs that
\* the program itself would never end)
PageCap == 4

(* ------------------------ program constants --------------------------- *)

\* per_page = min(repos_per_page, 100)
ApiMaxPerPage == 100

(* ---------------------------- helpers --------------------------------- *)

\* Python's None and a set Optional[int]
None == <<>>
Some(x) == <<x>>
IsSet(o) == o # None
Val(o) == o[1]

Min(a, b) == IF a <= b THEN a ELSE b

\* the repository records the servers hold (opaque values; equal records
\* may occur several times in one store)
RecordSeq == <<"r1", "r2">>
Records == {RecordSeq[i] : i \in 1..Len(RecordSeq)}

\* Python slice s[:k] for k >= 0; for k < 0 it drops the last -k elements
SliceTo(s, k) ==
    IF k >= 0 THEN SubSeq(s, 1, Min(k, Len(s)))
    ELSE SubSeq(s, 1, IF Len(s) + k > 0 THEN Len(s) + k ELSE 0)

RECURSIVE Concat(_)
Concat(ss) == IF ss = <<>> THEN <<>> ELSE Head(ss) \o Concat(Tail(ss))

IsPrefix(s, t) == Len(s) <= Len(t) /\ SubSeq(t, 1, Len(s)) = s

\* all sequences over S of length at most n
RECURSIVE SeqsUpTo(_, _)
SeqsUpTo(S, n) ==
    IF n = 0 THEN {<<>>}
    ELSE LET shorter == SeqsUpTo(S, n - 1)
         IN  shorter \cup {Append(s, x) : s \in {t \in shorter : Len(t) = n - 1}, x \in S}

\* a page of len records that repeats RecordSeq, starting after position start
Cyclic(start, len) ==
    [i \in 1..len |-> RecordSeq[((start + i - 1) % Len(RecordSeq)) + 1]]

(* --------------------------- the server ------------------------------- *)

\* the store behind the spec's "100 then 2" scenario: one full page of the
\* API's maximum size followed by a short page of two
BigStore == Cyclic(0, ApiMaxPerPage + 2)

Servers ==
    {[mode |-> "paged", store |-> s] : s \in SeqsUpTo(Records, MaxTotal) \cup {BigStore}}
    \cup {[mode |-> "endless", store |-> <<>>], [mode |-> "erratic", store |-> <<>>]}

\* the bodies a server may send for GET ...?page=p&per_page=n
Bodies(srv, p, n) ==
    CASE srv.mode = "paged" ->
           {SubSeq(srv.store, (p - 1) * n + 1, Min(p * n, Len(srv.store)))}
      [] srv.mode = "endless" -> {Cyclic((p - 1) * n, n)}
      [] OTHER -> {Cyclic(0, l) : l \in {0, n - 1, n, n + 1}}

\* status codes requests.get may hand back (redirects with a Location header
\* are followed by the library and never seen; 300 is a 3xx it does not follow)
Statuses == {200, 300, 403, 404, 500}

\* values of the X-RateLimit-Remaining response header; "absent": no header
RemainingValues == {"absent", "0", "00", "57"}

VARIABLES
    server,            \* the environment: what the API holds
    repos_per_page,    \* args.repos_per_page
    max_pages,         \* args.pages  (None or Some(k))
    max_repos,         \* args.limit  (None or Some(m))
    pc,                \* "loop" | "await" | "returned" | "raised" | "printing" | "exited"
    page,              \* local page of make_github_api_request
    all_repositories,  \* local accumulator of make_github_api_request
    calls,             \* requests.get call count
    requested,         \* params of every GET issued, in order
    received,          \* bodies parsed by response.json(), in order
    response,          \* the last response handed back by requests.get, or None
    exc,               \* exception propagating out of / caught around the fetch
    repositories,      \* main's variable: None until the fetch returns
    stdout,            \* lines written to standard output
    stderr,            \* lines written to the diagnostic stream
    format,            \* args.format; None until main first reads it
    exit_code          \* None while running, Some(code) once the process ended

vars == <<server, repos_per_page, max_pages, max_repos, pc, page, all_repositories,
          calls, requested, received, response, exc, repositories, stdout, stderr,
          format, exit_code>>

args == <<server, repos_per_page, max_pages, max_repos>>

\* a line on the diagnostic stream
Diag(msg, a, b) == [msg |-> msg, a |-> a, b |-> b]

\* per_page = min(repos_per_page, 100)
PerPage(rpp) == Min(rpp, ApiMaxPerPage)

per_page == PerPage(repos_per_page)

(* ------------------------------ Init ---------------------------------- *)

\* the state when main enters its try block: arguments parsed and validated
\* (1 <= repos_per_page <= 100, pages >= 1, limit >= 1), nothing fetched
Init ==
    /\ server \in Servers
    /\ repos_per_page \in (1..MaxPerPage) \cup {ApiMaxPerPage}
    \* the API's maximal page size is requested from the paged servers only,
    \* and the big store is paged at that size only
    /\ repos_per_page = ApiMaxPerPage => server.mode = "paged"
    /\ server.store = BigStore => repos_per_page = ApiMaxPerPage
    /\ max_pages \in {None} \cup {Some(k) : k \in 1..MaxPagesArg}
    /\ max_repos \in {None} \cup {Some(m) : m \in 1..MaxReposArg}
    /\ pc = "loop"
    /\ page = 1
    /\ all_repositories = <<>>
    /\ calls = 0
    /\ requested = <<>>
    /\ received = <<>>
    /\ response = None
    /\ exc = "none"
    /\ repositories = None
    /\ stdout = <<>>
    /\ stderr = <<>>
    /\ format = None
    /\ exit_code = None

(* ------------------- make_github_api_request -------------------------- *)

\* mutants of the page-limit check: off by one; check left out
PageLimitOffByOne(p, mp) == IsSet(mp) /\ p > Val(mp) + 1
PageLimitNever(p, mp) == FALSE

\* if max_pages is not None and page > max_pages
PageLimitReached(p, mp) == IsSet(mp) /\ p > Val(mp)

\* top of the loop: if max_repos is not None and len(all_repositories) >= max_repos
RepoLimitAtTop(acc, mr) == IsSet(mr) /\ Len(acc) >= Val(mr)

\* mutant: the check after the append uses > instead of >=
RepoLimitAfterAppendStrict(acc, mr) == IsSet(mr) /\ Len(acc) > Val(mr)

\* after the append: if max_repos is not None and len(all_repositories) >= max_repos
RepoLimitAfterAppend(acc, mr) == IsSet(mr) /\ Len(acc) >= Val(mr)

\* mutant: the records already accumulated are not subtracted
RemainingSlotsWholeLimit(acc, body, mr) == IF IsSet(mr) THEN Val(mr) ELSE Len(body)

\* remaining_slots = max_repos - len(all_repositories) if max_repos is not None
\*                   else len(repositories)
RemainingSlots(acc, body, mr) == IF IsSet(mr) THEN Val(mr) - Len(acc) ELSE Len(body)

\* mutants of the cut: no cut at all; the last records kept instead of the first
RepositoriesToAddUncut(acc, body, mr) == body
RepositoriesToAddFromEnd(acc, body, mr) ==
    LET k == IF IsSet(mr) THEN Min(Len(body), Val(mr) - Len(acc)) ELSE Len(body)
    IN  SubSeq(body, Len(body) - k + 1, Len(body))

\* repositories_to_add = repositories[:remaining_slots]
RepositoriesToAdd(acc, body, mr) == SliceTo(body, RemainingSlots(acc, body, mr))

\* mutant: a full page is taken for the last page (<= instead of <)
LastPageInclusive(body, n) == Len(body) <= n

\* if len(repositories) < per_page: this is the last page
LastPage(body, n) == Len(body) < n

\* response.raise_for_status(): requests raises HTTPError for 4xx and 5xx
RaisesForStatus(status) == 400 <= status /\ status < 600

\* mutant: the header is compared as a number
RateLimitExhaustedNumeric(remaining) == remaining \in {"0", "00"}

\* rate_limit_info == "0" (string comparison; an absent header gives None)
RateLimitExhausted(remaining) == remaining = "0"

\* what one answer of requests.get leads to: "parsed" (response.json() is
\* read as a page) or the exception the fetch raises
Classify(r) ==
    IF r.kind = "exception" THEN "GitHubAPIError"
    ELSE IF r.status = 403
         THEN IF RateLimitExhausted(r.remaining) THEN "RateLimitExceededError"
              ELSE "GitHubAPIError"
    ELSE IF RaisesForStatus(r.status) THEN "GitHubAPIError"
    ELSE "parsed"

\* the answers the environment may give to GET ...?page=p&per_page=n:
\* a connection/timeout failure, an error status, or a page
Responses(srv, p, n) ==
    {[kind |-> "exception", status |-> 0, remaining |-> "absent", body |-> <<>>]}
    \cup UNION {{[kind |-> "http", status |-> st, remaining |-> h, body |-> <<>>] :
                    h \in (IF st = 403 THEN RemainingValues ELSE {"0", "57"})} :
                 st \in {x \in Statuses : x >= 400}}
    \cup {[kind |-> "http", status |-> st, remaining |-> "57", body |-> b] :
             st \in {x \in Statuses : x < 400}, b \in Bodies(srv, p, n)}

\* break / fall out of the loop: print the total, return to main, which
\* assigns the result to repositories
FetchReturns(acc, notices) ==
    /\ stderr' = stderr \o notices \o <<Diag("total", Len(acc), 0)>>
    /\ all_repositories' = acc
    /\ repositories' = Some(acc)
    /\ pc' = "returned"

\* while True: the two limit checks, then requests.get is called
LoopTop ==
    /\ pc = "loop"
    /\ IF PageLimitReached(page, max_pages)
       THEN /\ FetchReturns(all_repositories, <<Diag("page_limit", Val(max_pages), 0)>>)
            /\ UNCHANGED <<calls, requested>>
       ELSE IF RepoLimitAtTop(all_repositories, max_repos)
       THEN /\ FetchReturns(all_repositories, <<Diag("repo_limit", Val(max_repos), 0)>>)
            /\ UNCHANGED <<calls, requested>>
       ELSE /\ page <= PageCap
            /\ stderr' = Append(stderr, Diag("fetching", page, 0))
            /\ calls' = calls + 1
            /\ requested' = Append(requested, [page |-> page, per_page |-> per_page])
            /\ pc' = "await"
            /\ UNCHANGED <<all_repositories, repositories>>
    /\ UNCHANGED <<args, page, received, response, exc, stdout, format, exit_code>>

\* the body of the loop after requests.get handed back a page
HandlePage(body) ==
    /\ received' = Append(received, body)
    /\ exc' = exc
    /\ IF body = <<>>
       THEN /\ FetchReturns(all_repositories, <<>>)
            /\ page' = page
       ELSE LET add == RepositoriesToAdd(all_repositories, body, max_repos)
                acc == all_repositories \o add
                got == <<Diag("retrieved", Len(add), page)>>
            IN  IF LastPage(body, per_page) \/ RepoLimitAfterAppend(acc, max_repos)
                THEN /\ FetchReturns(acc, got)
                     /\ page' = page
                ELSE /\ all_repositories' = acc
                     /\ stderr' = stderr \o got
                     /\ page' = page + 1
                     /\ pc' = "loop"
                     /\ repositories' = repositories

\* mutant: the error is recorded but the loop goes on with the same page
FetchRaisesThenRetries(e) ==
    /\ exc' = e
    /\ pc' = "loop"
    /\ UNCHANGED <<page, all_repositories, received, repositories, stderr>>

\* an exception leaves make_github_api_request: its locals are gone and
\* main's repositories is never assigned
FetchRaises(e) ==
    /\ exc' = e
    /\ pc' = "raised"
    /\ UNCHANGED <<page, all_repositories, received, repositories, stderr>>

\* requests.get returns or raises; status checks; parse; append; stop checks
Respond ==
    /\ pc = "await"
    /\ \E r \in Responses(server, page, per_page) :
          /\ response' = Some(r)
          /\ IF Classify(r) = "parsed" THEN HandlePage(r.body)
             ELSE FetchRaises(Classify(r))
    /\ UNCHANGED <<args, calls, requested, stdout, format, exit_code>>

(* ------------------------------ main ---------------------------------- *)

Formats == {"default", "detailed", "json", "compact"}

\* a line on standard output
Line(kind, fmt, x) == [line |-> kind, fmt |-> fmt, x |-> x]

\* format_repository_output: one of four templates filled from the record;
\* any format other than json, detailed, compact uses the default template
FormatRepositoryOutput(repo, fmt) ==
    Line("repo", IF fmt \in {"json", "detailed", "compact"} THEN fmt ELSE "default", Some(repo))

\* the repository lines on standard output
RepoLines(out) == SelectSeq(out, LAMBDA l : l.line = "repo")

\* the process ends
Exit(code) ==
    /\ exit_code' = Some(code)
    /\ pc' = "exited"

\* if not repositories: "No repositories found", return; else the "Found n"
\* header (and the initial newline of the detailed and json formats)
MainReport ==
    /\ pc = "returned"
    /\ IF Val(repositories) = <<>>
       THEN /\ stdout' = Append(stdout, Line("none_found", "", None))
            /\ format' = format
            /\ Exit(0)
       ELSE \E f \in Formats :
            /\ format' = Some(f)
            /\ stdout' = stdout \o <<Line("found", "", Some(Len(Val(repositories))))>>
                                \o (IF f \in {"default", "compact"} THEN <<>>
                                    ELSE <<Line("blank", "", None)>>)
            /\ pc' = "printing"
            /\ exit_code' = exit_code
    /\ UNCHANGED <<args, page, all_repositories, calls, requested, received, response,
                   exc, repositories, stderr>>

\* one turn of "for repo in repositories: print(...)"; after the last
\* record main returns and the process ends with exit code 0
PrintRepo ==
    /\ pc = "printing"
    /\ LET i == Len(RepoLines(stdout)) + 1
           f == Val(format)
       IN  /\ stdout' = Append(stdout, FormatRepositoryOutput(Val(repositories)[i], f))
                         \o (IF f \in {"default", "compact", "json"} THEN <<>>
                             ELSE <<Line("blank", "", None)>>)
           /\ IF i = Len(Val(repositories)) THEN Exit(0)
              ELSE UNCHANGED <<pc, exit_code>>
    /\ UNCHANGED <<args, page, all_repositories, calls, requested, received, response,
                   exc, repositories, stderr, format>>

\* the user interrupts the process somewhere inside main's try block
Interrupt ==
    /\ pc \in {"loop", "await", "returned", "printing"}
    /\ exc' = "KeyboardInterrupt"
    /\ pc' = "raised"
    /\ UNCHANGED <<args, page, all_repositories, calls, requested, received, response,
                   repositories, stdout, stderr, format, exit_code>>

\* what each except clause of main writes to the diagnostic stream
HandlerNotices(e) ==
    CASE e = "RateLimitExceededError" -> <<Diag("error", 0, 0), Diag("token_hint", 0, 0)>>
      [] e = "GitHubAPIError" -> <<Diag("error", 0, 0)>>
      [] OTHER -> <<Diag("cancelled", 0, 0)>>

\* mutant: a cancelled run exits with 0
HandlerExitCodeCancelZero(e) == IF e = "KeyboardInterrupt" THEN 0 ELSE 1

\* the exit code each except clause of main passes to sys.exit
HandlerExitCode(e) == 1

\* except RateLimitExceededError / GitHubAPIError / KeyboardInterrupt
HandleException ==
    /\ pc = "raised"
    /\ stderr' = stderr \o HandlerNotices(exc)
    /\ Exit(HandlerExitCode(exc))
    /\ UNCHANGED <<args, page, all_repositories, calls, requested, received, response,
                   exc, repositories, stdout, format>>

Next == LoopTop \/ Respond \/ MainReport \/ PrintRepo \/ Interrupt \/ HandleException

Spec == Init /\ [][Next]_vars

\* make_github_api_request on its own, as its callers and tests run it
FetchNext == LoopTop \/ Respond \/ Interrupt

\* every request eventually returns (an answer, or a failure within the
\* timeout) and the interpreter takes the next step of the loop
FetchFairSpec ==
    /\ Init
    /\ [][FetchNext]_vars
    /\ WF_vars(LoopTop)
    /\ WF_vars(Respond)

(* ========================= the claims ================================= *)

\* the fetch returned to main (successfully)
FetchReturned == IsSet(repositories)

\* the fetch ended by raising one of its two errors
FetchFailed == exc \in {"RateLimitExceededError", "GitHubAPIError"}

\* what the fetch returned
Result == Val(repositories)

\* every page parsed so far was full
AllFull == \A i \in 1..Len(received) : Len(received[i]) = per_page

\* number of records a paged server holds
TotalAvailable == Len(server.store)

(* ------------------------------ C1 ------------------------------------ *)

\* C1: with maxPages = k at most k GET calls are ever issued, whatever the
\* server holds and whatever perPage and maxRepos are; and when k full pages
\* were received and maxRepos is unset, exactly k calls were made, the only
\* step left to the loop is the page-limit stop, and the fetch returns the
\* concatenation of the k pages.
C1_AtMostMaxPagesCalls ==
    /\ IsSet(max_pages) => calls <= Val(max_pages)
    /\ ( /\ IsSet(max_pages) /\ ~IsSet(max_repos)
         /\ Len(received) = Val(max_pages) /\ AllFull
         /\ exc = "none" )
       => /\ calls = Val(max_pages)
          /\ pc # "await"
          /\ pc = "loop" => PageLimitReached(page, max_pages)
          /\ pc # "loop" => /\ FetchReturned
                            /\ Result = Concat(received)
                            /\ Len(Result) = Val(max_pages) * per_page

C1_Witness ==
    /\ FetchReturned /\ max_pages = Some(2) /\ ~IsSet(max_repos)
    /\ server.mode = "endless" /\ calls = 2 /\ Len(received) = 2 /\ AllFull
    /\ Len(Result) = 2 * per_page

(* ------------------------------ C2 ------------------------------------ *)

\* C2 as stated: with maxRepos = m a successful fetch from a server that
\* holds TotalAvailable records returns exactly min(m, TotalAvailable)
\* records, for every setting of maxPages.
C2_Original ==
    (server.mode = "paged" /\ FetchReturned /\ IsSet(max_repos))
    => Len(Result) = Min(Val(max_repos), TotalAvailable)

\* C2 amended: with maxRepos = m a successful fetch from a server that pages
\* a store of TotalAvailable records returns exactly min(m, TotalAvailable)
\* records when maxPages is unset, and min(m, TotalAvailable,
\* maxPages * perPage) records when maxPages is set.
C2_LengthIsMinOfLimits ==
    (server.mode = "paged" /\ FetchReturned /\ IsSet(max_repos))
    => Len(Result) =
         IF IsSet(max_pages)
         THEN Min(Min(Val(max_repos), TotalAvailable), Val(max_pages) * per_page)
         ELSE Min(Val(max_repos), TotalAvailable)

C2_Witness ==
    /\ server.mode = "paged" /\ FetchReturned
    /\ max_repos = Some(3) /\ TotalAvailable = 4 /\ per_page = 2
    /\ max_pages = Some(3) /\ calls = 2 /\ Len(Result) = 3

(* ------------------------------ C3 ------------------------------------ *)

\* the length of the concatenation of the whole pages (of size n, from a
\* store of t records) that come before the first page that would make the
\* total exceed m
WholePagesBelow(t, n, m) == IF t <= m THEN t ELSE (m \div n) * n

\* number of pages the loop has to fetch from a store of t records at page
\* size n: up to the short (or empty) last page, or up to the page that
\* holds the m-th record
PagesNeeded(t, n, mr) ==
    IF IsSet(mr) /\ Val(mr) <= t THEN (Val(mr) + n - 1) \div n ELSE (t \div n) + 1

\* C3 as stated: from a server whose pages are all full except a final short
\* or empty one, the fetch returns the concatenation of the pages up to but
\* not including the first page that would make the total exceed maxRepos
\* (all pages when maxRepos is unset), and the number of calls is the number
\* of pages fetched.
C3_Original ==
    (server.mode = "paged" /\ FetchReturned /\ ~IsSet(max_pages))
    => /\ Result = SubSeq(server.store, 1,
                          IF IsSet(max_repos)
                          THEN WholePagesBelow(TotalAvailable, per_page, Val(max_repos))
                          ELSE TotalAvailable)
       /\ calls = Len(received)

\* C3 amended: from a server whose pages are all full except a final short
\* or empty one, the fetch returns the concatenation of the pages fetched
\* with the first page that would make the total exceed maxRepos cut to the
\* remaining slots (not left out): the first min(maxRepos, total) records
\* (all records when maxRepos is unset; at most maxPages pages when maxPages
\* is set); and the number of calls is the number of pages fetched.
C3_ConcatenationCutAtLimit ==
    (server.mode = "paged" /\ FetchReturned)
    => LET all == IF IsSet(max_repos) THEN Min(Val(max_repos), TotalAvailable)
                  ELSE TotalAvailable
           need == PagesNeeded(TotalAvailable, per_page, max_repos)
       IN  /\ Result = SubSeq(server.store, 1,
                              IF IsSet(max_pages)
                              THEN Min(all, Val(max_pages) * per_page) ELSE all)
           /\ IsPrefix(Result, Concat(received))
           /\ calls = Len(received)
           /\ calls = IF IsSet(max_pages) THEN Min(need, Val(max_pages)) ELSE need

C3_Witness ==
    /\ server.mode = "paged" /\ FetchReturned /\ ~IsSet(max_pages)
    /\ max_repos = Some(3) /\ per_page = 2 /\ TotalAvailable = 4
    /\ calls = 2 /\ Len(Result) = 3 /\ Len(Concat(received)) = 4

(* ------------------------------ C4 ------------------------------------ *)

\* a step in which requests.get hands back its answer and the loop acts on it
RespondStep == pc = "await" /\ pc' # "await" /\ exc' # "KeyboardInterrupt"

\* that answer, and whether its body was read as a page
Answer == Val(response')
Parsed == Len(received') = Len(received) + 1

Is2xx(status) == 200 <= status /\ status < 300

C5_FailureEndsFetch ==
    /\ [](FetchFailed => /\ pc \in {"raised", "exited"}
                         /\ ~FetchReturned
                         /\ stdout = <<>>
                         /\ calls = Len(received) + 1)
    /\ [][ /\ FetchFailed => (calls' = calls /\ requested' = requested /\ FetchFailed')
           /\ (RespondStep /\ FetchFailed') => (calls' = calls /\ ~Parsed) ]_vars

C5_Witness ==
    /\ pc = "exited" /\ exc = "GitHubAPIError" /\ Val(response).kind = "exception"
    /\ calls = 3 /\ Len(received) = 2 /\ Len(all_repositories) > 0
    /\ stdout = <<>> /\ ~FetchReturned

(* ------------------------------ C6 ------------------------------------ *)

\* the records of a page that the limit lets in
Admitted(acc, body) ==
    IF IsSet(max_repos) THEN SubSeq(body, 1, Min(Len(body), Val(max_repos) - Len(acc)))
    ELSE body

\* C6: a parsed page with strictly fewer records than per_page (an empty one
\* included) ends the fetch at once: no further GET, and the fetch returns
\* what was accumulated plus the page's admitted records.  A full page that
\* does not fill maxRepos moves the loop to the next page number, and at the
\* top of the loop a page number within maxPages is requested.  An empty
\* first page gives an empty result after 1 call; 100 then 2 records at
\* per_page 100 without limits give 102 records after 2 calls.
C6_ShortPageStops ==
    /\ [][ /\ (RespondStep /\ Parsed /\ Len(Answer.body) < per_page)
              => /\ pc' = "returned"
                 /\ Val(repositories') = all_repositories \o Admitted(all_repositories, Answer.body)
                 /\ calls' = calls
           /\ FetchReturned => (calls' = calls /\ repositories' = repositories)
           /\ ( /\ RespondStep /\ Parsed /\ Len(Answer.body) = per_page
                /\ ~(IsSet(max_repos) /\ Len(all_repositories) + per_page >= Val(max_repos)) )
              => (pc' = "loop" /\ page' = page + 1)
           /\ ( /\ pc = "loop" /\ pc' # "loop" /\ exc' # "KeyboardInterrupt"
                /\ ~(IsSet(max_pages) /\ page > Val(max_pages)) )
              => /\ pc' = "await"
                 /\ calls' = calls + 1
                 /\ requested' = Append(requested, [page |-> page, per_page |-> per_page]) ]_vars
    /\ []( (FetchReturned /\ received # <<>> /\ received[1] = <<>>)
           => (Result = <<>> /\ calls = 1) )
    /\ []( ( /\ FetchReturned /\ server.store = BigStore /\ per_page = ApiMaxPerPage
             /\ ~IsSet(max_pages) /\ ~IsSet(max_repos) )
           => (Len(Result) = ApiMaxPerPage + 2 /\ calls = 2) )

C6_Witness ==
    /\ FetchReturned /\ server.store = BigStore /\ per_page = ApiMaxPerPage
    /\ ~IsSet(max_pages) /\ ~IsSet(max_repos)
    /\ Len(received) = 2 /\ Len(received[1]) = 100 /\ Len(received[2]) = 2
    /\ Len(Result) = 102 /\ calls = 2

(* ------------------------------ C7 ------------------------------------ *)

KeyboardInterrupted == exc = "KeyboardInterrupt"

\* C7 as stated: exit code 0 when the fetch succeeds (repositories printed
\* or none found), 1 when it fails with RateLimitExceeded or APIError or the
\* user interrupts; no exit-1 run has written a repository line.
C7_Original ==
    pc = "exited"
    => /\ FetchReturned => exit_code = Some(0)
       /\ (FetchFailed \/ KeyboardInterrupted) => exit_code = Some(1)
       /\ exit_code = Some(1) => RepoLines(stdout) = <<>>

\* C7 amended: the exit code is 0 when the fetch succeeds and the user does
\* not interrupt the printing that follows (all repositories printed, or
\* "no repositories found"); it is 1 when the fetch fails with
\* RateLimitExceeded or APIError or the user interrupts.  When the fetch
\* failed or was interrupted no repository line is on standard output; an
\* interrupt after the fetch returned exits 1 with the lines printed so far.
C7_ExitCodes ==
    pc = "exited"
    => /\ exit_code \in {Some(0), Some(1)}
       /\ (FetchReturned /\ ~KeyboardInterrupted)
          => /\ exit_code = Some(0)
             /\ Len(RepoLines(stdout)) = Len(Result)
             /\ Result = <<>> <=> stdout = <<Line("none_found", "", None)>>
       /\ (FetchFailed \/ KeyboardInterrupted) => exit_code = Some(1)
       /\ exit_code = Some(0) => (FetchReturned /\ exc = "none")
       /\ ~FetchReturned => (exit_code = Some(1) /\ stdout = <<>>)

C7_Witness ==
    /\ pc = "exited" /\ exit_code = Some(1) /\ KeyboardInterrupted
    /\ ~FetchReturned /\ calls = 2 /\ Len(all_repositories) > 0 /\ stdout = <<>>

(* ------------------------------ C8 ------------------------------------ *)

\* C8: at every moment the accumulator is a prefix of the concatenation, in
\* request order, of the bodies parsed so far (in-page order and duplicates
\* kept, no record of a later page before one of an earlier page), and the
\* requests carry the page numbers 1, 2, 3, ... in order, none skipped or
\* repeated, each with the same per_page.
C8_AccumulatorIsPrefix ==
    /\ IsPrefix(all_repositories, Concat(received))
    /\ FetchReturned => Result = all_repositories
    /\ Len(requested) = calls
    /\ requested = [i \in 1..calls |-> [page |-> i, per_page |-> per_page]]
    /\ Len(received) \in {calls - 1, calls}

C8_Witness ==
    /\ Len(received) = 2 /\ Len(all_repositories) = 3 /\ Len(Concat(received)) = 4
    /\ all_repositories = <<"r1", "r1", "r2">> /\ calls = 2

(* ------------------------------ C9 ------------------------------------ *)

\* C9: with maxRepos = m >= 1 the accumulator holds fewer than m records at
\* every evaluation of the top-of-loop check and while a request is in
\* flight, never more than m, and the "Reached repository limit" notice is
\* never written: every stop at maxRepos is the one after the append.
C9_TopRepoCheckNeverFires ==
    IsSet(max_repos)
    => /\ pc \in {"loop", "await"} => Len(all_repositories) < Val(max_repos)
       /\ Len(all_repositories) <= Val(max_repos)
       /\ \A i \in 1..Len(stderr) : stderr[i].msg # "repo_limit"

C9_Witness ==
    /\ FetchReturned /\ max_repos = Some(2) /\ ~IsSet(max_pages)
    /\ server.mode = "endless" /\ per_page = 1
    /\ Len(Result) = 2 /\ calls = 2 /\ AllFull

(* ------------------------------ C10 ----------------------------------- *)

\* the fetch is over: it returned, raised, or was interrupted
FetchDone == FetchReturned \/ exc # "none"

NoLimits == ~IsSet(max_pages) /\ ~IsSet(max_repos)

\* C10: if every request eventually returns, the fetch terminates whenever
\* maxPages or maxRepos is set, whatever the server sends (full pages for
\* ever included).  With neither set it ends exactly on a short page, an
\* empty page or a failure: such an answer ends it at once, a returned fetch
\* has a short or empty last page, and after a full page the loop goes on
\* to request the next page.
C10_Termination ==
    /\ [](~NoLimits => <>FetchDone)
    /\ []( (NoLimits /\ FetchReturned)
           => (received # <<>> /\ Len(received[Len(received)]) < per_page) )
    /\ [][ NoLimits
           => /\ (RespondStep /\ (~Parsed \/ Len(Answer.body) < per_page)) => FetchDone'
              /\ (RespondStep /\ Parsed /\ Len(Answer.body) >= per_page)
                 => (pc' = "loop" /\ page' = page + 1 /\ ~FetchDone')
              /\ (pc = "loop" /\ pc' # "loop" /\ exc' # "KeyboardInterrupt")
                 => (pc' = "await" /\ calls' = calls + 1) ]_vars

C10_Witness ==
    /\ FetchReturned /\ server.mode = "endless" /\ per_page = 1
    /\ max_repos = Some(3) /\ ~IsSet(max_pages) /\ calls = 3 /\ AllFull

====
